---- MODULE Spec2Model ----
(***************************************************************************)
(* A model of src/index.js: the Player class, the process-wide message     *)
(* router (messageHandlers, attachedListeners, the window 'message'        *)
(* listener) and the readiness handshake.                                  *)
(*                                                                         *)
(* Every `new Player(...)` call takes the next object slot 1, 2, ...; the  *)
(* module counter `id` is incremented by every constructor call (line 83), *)
(* so it is also the number of slots in use.  A slot holds the private     *)
(* fields of the object, the part of the document the object touches, the  *)
(* messages its frame's window has been posted, and four observation       *)
(* fields (delivered, issued, ticks, loads) that only record what was      *)
(* asked of it.                                                            *)
(***************************************************************************)
EXTENDS Integers, Sequences, FiniteSets, Bags, TLC

\* ---------------------------------------------------------------- bounds
MaxPlayers == 2      \* constructor calls in one run
MaxCmds == 2         \* remote commands issued in one run, all instances
MaxTicks == 3        \* firings of the probe interval in one run
MaxLoads == 1        \* frame load events in one run
MaxHandlers == 2     \* handlers registered at one time, all instances

\* ------------------------------------------------------ program constants
PollInterval == 100
DefaultHost == "https://www.youtube.com"
Channel == "widget"
DuplicateError == "Duplicate player id"
TargetError == "target must be an element"

\* ------------------------------------------------------------ JS values
undefined == "undefined"
EmptyObj == [k \in {} |-> 0]
Obj(f) == [type |-> "object", fields |-> f]
NoValue == [type |-> "undefined", fields |-> EmptyObj]

\* the later value alone, dropping what the earlier one held
SpreadReplacing(a, b) ==
  Obj(IF b.type = "object" THEN b.fields ELSE EmptyObj)

\* { ...a, ...b } on two values that are objects or undefined
Spread(a, b) ==
  LET fa == IF a.type = "object" THEN a.fields ELSE EmptyObj
      fb == IF b.type = "object" THEN b.fields ELSE EmptyObj
  IN  Obj([k \in DOMAIN fa \cup DOMAIN fb |-> IF k \in DOMAIN fb THEN fb[k] ELSE fa[k]])

\* ---------------------------------------------------------------- inputs
Player == 1..MaxPlayers
OtherHost == "https://www.youtube-nocookie.com"
UntrustedOrigin == "https://evil.example"
Hosts == {DefaultHost, OtherHost}
Origins == Hosts \cup {UntrustedOrigin}

AutoId(n) == "c" \o ToString(n)
ExplicitIds == {"c1"}
AllIds == {AutoId(n) : n \in 0..(MaxPlayers - 1)} \cup ExplicitIds

Funcs == {"playVideo"}
EventNames == {"onReady"}
Handlers == {"h1", "h2", "once", "adder"}
Properties == {"volume", "muted", "duration"}

Infos == {[volume |-> 50], [muted |-> TRUE], [volume |-> 80]}

\* the element handed to the constructor: null, a frame in the document, a
\* placeholder in the document, a placeholder that has no parent
NullTarget == [tagName |-> "null", parent |-> FALSE]
Frame == [tagName |-> "IFRAME", parent |-> TRUE]
Placeholder == [tagName |-> "DIV", parent |-> TRUE]
Orphan == [tagName |-> "DIV", parent |-> FALSE]

NoOptions == [id |-> undefined, host |-> undefined, events |-> EmptyObj]

\* the constructor calls tried: <<target, options>>
Calls ==
  { <<NullTarget, NoOptions>>,
    <<Frame, NoOptions>>,
    <<Placeholder, NoOptions>>,
    <<Orphan, NoOptions>>,
    <<Frame, [NoOptions EXCEPT !.id = "c1"]>>,
    <<Frame, [NoOptions EXCEPT !.host = OtherHost]>>,
    <<Placeholder, [NoOptions EXCEPT !.events = [onReady |-> "h1"]]>> }

\* a 'message' event of the window: its origin and its data, which is text
\* that does not parse, the text "null", or the text of an object
Deliveries ==
  { <<"initialDelivery", NoValue>>, <<"initialDelivery", Obj([muted |-> TRUE])>>,
    <<"apiInfoDelivery", NoValue>>, <<"onReady", NoValue>> }
  \cup {<<"infoDelivery", Obj(i)>> : i \in Infos}

Inbound ==
  {[origin |-> o, kind |-> "object", id |-> i, event |-> d[1], info |-> d[2]] :
      o \in Origins, i \in AllIds, d \in Deliveries}
  \cup [origin : Origins, kind : {"text", "null"}, id : {undefined}, event : {undefined}, info : {NoValue}]

\* ----------------------------------------------------------------- state
VARIABLES
  id,                 \* let id = 0 (line 66)
  messageHandlers,    \* Map: identifier -> the slot whose #handleMessage it calls
  attachedListeners,  \* Set of hosts; non-empty iff the window listener is attached
  player,             \* slot -> the object and its frame
  result,             \* what the last call threw, or "ok"
  fired,              \* the callbacks the last step invoked, in order
  lastOrigin          \* event.origin when the last step was a 'message' event, else "none"

vars == <<id, messageHandlers, attachedListeners, player, result, fired, lastOrigin>>

NoOrigin == "none"

NoPlayer ==
  [ status |-> "none",          \* none | live | failed | notarget | destroyed
    id |-> undefined,           \* this.id
    host |-> undefined,         \* this.options.host
    tagName |-> "null",         \* #originalElement.tagName
    slot |-> "none",            \* what the element's place in its parent holds: none | original | iframe
    messageQueue |-> <<>>,      \* #messageQueue
    ready |-> FALSE,            \* #ready
    pollReadiness |-> FALSE,    \* #pollReadiness !== null
    info |-> Obj(EmptyObj),     \* #info
    events |-> EmptyObj,        \* #events: name -> list of handlers
    posted |-> <<>>,            \* messages posted to #iframe.contentWindow
    delivered |-> EmptyObj,     \* observation: property -> the value last delivered for it
    issued |-> <<>>,            \* observation: every command #sendCommand was given
    ticks |-> 0,                \* observation: firings of the interval
    loads |-> 0 ]               \* observation: load events of the frame

Init ==
  /\ id = 0
  /\ messageHandlers = EmptyObj
  /\ attachedListeners = {}
  /\ player = [p \in Player |-> NoPlayer]
  /\ result = "ok"
  /\ fired = <<>>
  /\ lastOrigin = NoOrigin

\* --------------------------------------------------- methods of one object
\* #iframe.contentWindow is non-null exactly while the frame is in the document
HasContentWindow(self) ==
  \/ self.tagName = "IFRAME" /\ self.slot = "original"
  \/ self.tagName = "DIV" /\ self.slot = "iframe"

Listening == [event |-> "listening", func |-> undefined, args |-> <<>>]
Command(func, args) == [event |-> "command", func |-> func, args |-> args]

\* { ...data, id: this.id, channel: 'widget' }, posted with target origin options.host
Payload(self, data) ==
  [event |-> data.event, func |-> data.func, args |-> data.args,
   id |-> self.id, channel |-> Channel, targetOrigin |-> self.host]

SendMessage(self, data) ==
  IF ~HasContentWindow(self)
  THEN self
  ELSE [self EXCEPT !.posted = Append(@, Payload(self, data))]

RECURSIVE SendAll(_, _)
SendAll(self, queue) ==
  IF queue = <<>> THEN self
  ELSE SendAll(SendMessage(self, Head(queue)), Tail(queue))

\* the interval is left running
StopPollingLeftArmed(self) == self

StopPolling(self) ==
  IF self.pollReadiness THEN [self EXCEPT !.pollReadiness = FALSE] ELSE self

\* the command is posted whatever #ready says
SendCommandUnguarded(self, func, args) ==
  SendMessage([self EXCEPT !.issued = Append(@, Command(func, args))], Command(func, args))

SendCommand(self, func, args) ==
  LET s == [self EXCEPT !.issued = Append(@, Command(func, args))]
  IN  IF s.ready
      THEN SendMessage(s, Command(func, args))
      ELSE [s EXCEPT !.messageQueue = Append(@, Command(func, args))]

\* Map.set on a map kept as a function
MapSet(map, k, v) == [x \in DOMAIN map \cup {k} |-> IF x = k THEN v ELSE map[x]]
MapDelete(map, k) == [x \in DOMAIN map \ {k} |-> map[x]]

\* the remote subscription is sent for every registration
AddEventListenerSubscribingAgain(self, name, handler) ==
  SendCommand([self EXCEPT !.events =
                 MapSet(@, name, IF name \in DOMAIN @ THEN Append(@[name], handler) ELSE <<handler>>)],
              "addEventListener", <<name>>)

AddEventListener(self, name, handler) ==
  IF name \in DOMAIN self.events
  THEN [self EXCEPT !.events[name] = Append(@, handler)]
  ELSE SendCommand([self EXCEPT !.events = MapSet(@, name, <<handler>>)],
                   "addEventListener", <<name>>)

\* list.indexOf(handler): the first position holding handler, 0 when none
IndexOf(list, handler) ==
  IF \E i \in 1..Len(list) : list[i] = handler
  THEN CHOOSE i \in 1..Len(list) : list[i] = handler /\ \A j \in 1..(i - 1) : list[j] # handler
  ELSE 0

\* list.splice(index, 1)
Splice(list, index) == SubSeq(list, 1, index - 1) \o SubSeq(list, index + 1, Len(list))

RemoveEventListener(self, name, handler) ==
  IF name \notin DOMAIN self.events
  THEN self
  ELSE LET list == self.events[name]
           index == IndexOf(list, handler)
           rest == IF index # 0 THEN Splice(list, index) ELSE list
       IN  IF Len(rest) = 0
           THEN [SendCommand(self, "removeEventListener", <<name>>)
                   EXCEPT !.events = MapDelete(self.events, name)]
           ELSE [self EXCEPT !.events[name] = rest]

\* handler(event): what the caller's function does to the instance it is
\* registered on.  "h1" and "h2" touch nothing, "once" unregisters itself,
\* "adder" registers "h2" under the same name.
CallHandler(self, handler, type) ==
  CASE handler = "once" -> RemoveEventListener(self, type, handler)
    [] handler = "adder" -> AddEventListener(self, type, "h2")
    [] OTHER -> self

\* list.forEach(handler => handler(event)): indices 0..len-1 for the length
\* read at the start, each visited only if the array still has it.  The
\* array is the one #events holds, so a handler's splice or push is seen by
\* the rest of the loop; once removeEventListener has emptied it and deleted
\* the entry, the loop has nothing left to visit.
RECURSIVE ForEach(_, _, _, _, _, _, _)
ForEach(p, self, type, data, k, len, calls) ==
  IF k > len \/ type \notin DOMAIN self.events
  THEN [self |-> self, fired |-> calls]
  ELSE IF k > Len(self.events[type])
  THEN ForEach(p, self, type, data, k + 1, len, calls)
  ELSE LET handler == self.events[type][k]
       IN  ForEach(p, CallHandler(self, handler, type), type, data, k + 1, len,
                   Append(calls, [handler |-> handler, target |-> p, type |-> type, data |-> data]))

\* the handler calls of #emit, in order, each with new PlayerEvent(this, type, data)
Emit(p, self, type, data) ==
  IF type \in DOMAIN self.events
  THEN ForEach(p, self, type, data, 1, Len(self.events[type]), <<>>)
  ELSE [self |-> self, fired |-> <<>>]

\* the values last delivered, whatever the snapshot still holds of them
LastDelivered(delivered, info) ==
  IF info.type = "object"
  THEN [k \in DOMAIN delivered \cup DOMAIN info.fields |->
          IF k \in DOMAIN info.fields THEN info.fields[k] ELSE delivered[k]]
  ELSE delivered

HandleMessage(p, self, data) ==
  LET flushed == IF Len(self.messageQueue) > 0
                 THEN [SendAll(self, self.messageQueue) EXCEPT !.messageQueue = <<>>]
                 ELSE self
      s == [StopPolling(flushed) EXCEPT !.ready = TRUE]
  IN  CASE data.event = "initialDelivery" ->
             [self |-> [s EXCEPT !.info = data.info,
                                 !.delivered = LastDelivered(@, data.info)],
              fired |-> <<>>]
        [] data.event = "infoDelivery" ->
             [self |-> [s EXCEPT !.info = Spread(s.info, data.info),
                                 !.delivered = LastDelivered(@, data.info)],
              fired |-> <<>>]
        [] data.event = "apiInfoDelivery" ->
             [self |-> s, fired |-> <<>>]
        [] OTHER ->
             Emit(p, s, data.event, data.info)

\* the getters: this.#info.<field>.  #info is whatever the last
\* 'initialDelivery' carried as info; reading a property off undefined throws.
GetterThrows(self) == self.info.type # "object"

\* what the getter returns when it does not throw: <<v>>, or <<>> for undefined
Get(self, field) ==
  IF field \in DOMAIN self.info.fields THEN <<self.info.fields[field]>> ELSE <<>>
getDuration(self) == Get(self, "duration")
getVolume(self) == Get(self, "volume")
isMuted(self) == Get(self, "muted")

\* --------------------------------------------------------------- counters
RECURSIVE SumOver(_, _)
SumOver(f, n) == IF n = 0 THEN 0 ELSE f[n] + SumOver(f, n - 1)
TotalIssued == SumOver([p \in Player |-> Len(player[p].issued)], MaxPlayers)
TotalTicks == SumOver([p \in Player |-> player[p].ticks], MaxPlayers)
TotalLoads == SumOver([p \in Player |-> player[p].loads], MaxPlayers)
RECURSIVE CountHandlers(_, _)
CountHandlers(events, names) ==
  IF names = {} THEN 0
  ELSE LET name == CHOOSE n \in names : TRUE
       IN  Len(events[name]) + CountHandlers(events, names \ {name})
TotalHandlers ==
  SumOver([p \in Player |-> CountHandlers(player[p].events, DOMAIN player[p].events)], MaxPlayers)

\* ------------------------------------------------------------ constructor
\* { ...defaults, ...options } followed by ??= for every default
WithDefaults(options, n) ==
  [id |-> IF options.id = undefined THEN AutoId(n) ELSE options.id,
   host |-> IF options.host = undefined THEN DefaultHost ELSE options.host,
   events |-> options.events]

\* Object.entries(this.options.events).forEach(addEventListener)
RECURSIVE AddAll(_, _, _)
AddAll(self, events, names) ==
  IF names = {} THEN self
  ELSE LET name == CHOOSE n \in names : TRUE
       IN  AddAll(AddEventListener(self, name, events[name]), events, names \ {name})

\* the identifier is looked up among the hosts
IsDuplicateAmongHosts(ident) == ident \in attachedListeners

\* messageHandlers.has(this.id)
IsDuplicate(ident) == ident \in DOMAIN messageHandlers

Construct(target, options) ==
  /\ id < MaxPlayers
  /\ TotalIssued + Cardinality(DOMAIN options.events) <= MaxCmds
  /\ TotalHandlers + Cardinality(DOMAIN options.events) <= MaxHandlers
  /\ LET p == id + 1
         opt == WithDefaults(options, id)
         created == target.tagName # "IFRAME"
         placed == [NoPlayer EXCEPT
                      !.id = opt.id, !.host = opt.host, !.tagName = target.tagName,
                      !.slot = IF ~target.parent THEN "none"
                               ELSE IF created THEN "iframe" ELSE "original"]
         probing == [SendMessage(placed, Listening) EXCEPT !.pollReadiness = TRUE]
         subscribed == AddAll(probing, opt.events, DOMAIN opt.events)
     IN  /\ id' = id + 1
         /\ fired' = <<>>
         /\ lastOrigin' = NoOrigin
         /\ IF target.tagName = "null"
            THEN /\ player' = [player EXCEPT ![p] = [NoPlayer EXCEPT !.status = "notarget", !.id = opt.id, !.host = opt.host]]
                 /\ result' = TargetError
                 /\ UNCHANGED <<messageHandlers, attachedListeners>>
            ELSE /\ attachedListeners' = attachedListeners \cup {opt.host}
                 /\ IF IsDuplicate(opt.id)
                    THEN /\ player' = [player EXCEPT ![p] = [subscribed EXCEPT !.status = "failed"]]
                         /\ result' = DuplicateError
                         /\ UNCHANGED messageHandlers
                    ELSE /\ player' = [player EXCEPT ![p] = [subscribed EXCEPT !.status = "live"]]
                         /\ result' = "ok"
                         /\ messageHandlers' = MapSet(messageHandlers, opt.id, p)

\* ------------------------------------------------------------- destroy()
\* the created frame stays where it is
LeaveFrame(self) == self

\* #iframe.parentNode.replaceChild(#originalElement, #iframe)
RestoreOriginal(self) == [self EXCEPT !.slot = "original"]

\* Called at most once, on an object whose constructor returned: a second
\* call on the same object is outside the documented use of the class.
Destroy(p) ==
  /\ player[p].status = "live"
  /\ fired' = <<>>
  /\ lastOrigin' = NoOrigin
  /\ UNCHANGED <<id, attachedListeners>>
  /\ LET self == player[p]
         stopped == [StopPolling(self) EXCEPT !.status = "destroyed"]
     IN  IF self.tagName # "IFRAME"
         THEN IF self.slot = "iframe"
              THEN /\ player' = [player EXCEPT ![p] = RestoreOriginal(stopped)]
                   /\ messageHandlers' = MapDelete(messageHandlers, self.id)
                   /\ result' = "ok"
              ELSE \* #iframe.parentNode is null: replaceChild is read off null
                   /\ player' = [player EXCEPT ![p] = stopped]
                   /\ result' = "TypeError"
                   /\ UNCHANGED messageHandlers
         ELSE /\ player' = [player EXCEPT ![p] = stopped]
              /\ messageHandlers' = MapDelete(messageHandlers, self.id)
              /\ result' = "ok"

\* ------------------------------------------------- timer and load events
Tick(p) ==
  /\ player[p].pollReadiness
  /\ TotalTicks < MaxTicks
  /\ player' = [player EXCEPT ![p] = [SendMessage(player[p], Listening) EXCEPT !.ticks = @ + 1]]
  /\ result' = "ok"
  /\ fired' = <<>>
  /\ lastOrigin' = NoOrigin
  /\ UNCHANGED <<id, messageHandlers, attachedListeners>>

\* the 'load' listener of line 118 is on every frame a constructor got as far
\* as; a frame loads only while it is in the document
Load(p) ==
  /\ player[p].status \in {"live", "failed", "destroyed"}
  /\ HasContentWindow(player[p])
  /\ TotalLoads < MaxLoads
  /\ player' = [player EXCEPT ![p] = [SendMessage(player[p], Listening) EXCEPT !.loads = @ + 1]]
  /\ result' = "ok"
  /\ fired' = <<>>
  /\ lastOrigin' = NoOrigin
  /\ UNCHANGED <<id, messageHandlers, attachedListeners>>

\* ------------------------------------------------------- public methods
\* the caller holds the object once its constructor has returned
Callable(p) == player[p].status \in {"live", "destroyed"}

\* the call leaves the run within its budget of commands
WithinCmds(p, after) == TotalIssued - Len(player[p].issued) + Len(after.issued) <= MaxCmds

\* the call leaves the run within its budget of registered handlers
WithinHandlers(p, after) ==
  TotalHandlers - CountHandlers(player[p].events, DOMAIN player[p].events)
    + CountHandlers(after.events, DOMAIN after.events) <= MaxHandlers

CallCommand(p, func) ==
  /\ Callable(p)
  /\ TotalIssued < MaxCmds
  /\ player' = [player EXCEPT ![p] = SendCommand(player[p], func, <<>>)]
  /\ result' = "ok"
  /\ fired' = <<>>
  /\ lastOrigin' = NoOrigin
  /\ UNCHANGED <<id, messageHandlers, attachedListeners>>

CallAddEventListener(p, name, handler) ==
  /\ Callable(p)
  /\ TotalHandlers < MaxHandlers
  /\ WithinCmds(p, AddEventListener(player[p], name, handler))
  /\ player' = [player EXCEPT ![p] = AddEventListener(player[p], name, handler)]
  /\ result' = "ok"
  /\ fired' = <<>>
  /\ lastOrigin' = NoOrigin
  /\ UNCHANGED <<id, messageHandlers, attachedListeners>>

CallRemoveEventListener(p, name, handler) ==
  /\ Callable(p)
  /\ WithinCmds(p, RemoveEventListener(player[p], name, handler))
  /\ player' = [player EXCEPT ![p] = RemoveEventListener(player[p], name, handler)]
  /\ result' = "ok"
  /\ fired' = <<>>
  /\ lastOrigin' = NoOrigin
  /\ UNCHANGED <<id, messageHandlers, attachedListeners>>

\* a getter: returns or throws, and touches nothing
CallGetter(p, field) ==
  /\ Callable(p)
  /\ result' = IF GetterThrows(player[p]) THEN "TypeError" ELSE "ok"
  /\ fired' = <<>>
  /\ lastOrigin' = NoOrigin
  /\ UNCHANGED <<id, messageHandlers, attachedListeners, player>>

\* ------------------------------------------------------ the window listener
\* every origin passes
TrustedAlways(origin) == origin = origin

\* attachedListeners.has(event.origin)
Trusted(origin) == origin \in attachedListeners

\* JSON.parse(event.data): throws on text that is not JSON, gives null for
\* the text "null" and the object for the text of an object
ParseThrows(m) == m.kind = "text"
ParsesToNull(m) == m.kind = "null"
Parse(m) == [id |-> m.id, event |-> m.event, info |-> m.info]

\* whichever handler the map holds, whatever the identifier
LookupAny(ident) ==
  IF DOMAIN messageHandlers = {} THEN 0
  ELSE messageHandlers[CHOOSE i \in DOMAIN messageHandlers : TRUE]

\* messageHandlers.get(data.id): the slot of the handler, 0 when there is none
Lookup(ident) == IF ident \in DOMAIN messageHandlers THEN messageHandlers[ident] ELSE 0

OnMessage(m) ==
  /\ attachedListeners # {}
  /\ lastOrigin' = m.origin
  /\ UNCHANGED <<id, messageHandlers, attachedListeners>>
  /\ IF ~Trusted(m.origin) \/ ParseThrows(m)
     THEN /\ result' = "ok"
          /\ fired' = <<>>
          /\ UNCHANGED player
     ELSE IF ParsesToNull(m)
     THEN \* data.id is read off null
          /\ result' = "TypeError"
          /\ fired' = <<>>
          /\ UNCHANGED player
     ELSE IF Lookup(Parse(m).id) # 0
     THEN LET p == Lookup(Parse(m).id)
              h == HandleMessage(p, player[p], Parse(m))
          IN  \* what the handlers called issue and register stays in the budget
              /\ WithinCmds(p, h.self)
              /\ WithinHandlers(p, h.self)
              /\ player' = [player EXCEPT ![p] = h.self]
              /\ fired' = h.fired
              /\ result' = "ok"
     ELSE /\ result' = "ok"
          /\ fired' = <<>>
          /\ UNCHANGED player

\* ------------------------------------------------------------------ specs
\* One instance and its handshake: every operation on it, and inbound
\* messages of two kinds, a domain event and a state delivery.
HandshakeInbound ==
  {m \in Inbound : m.kind = "object" =>
      <<m.event, m.info>> \in {<<"onReady", NoValue>>, <<"infoDelivery", Obj([volume |-> 50])>>}}

Next ==
  \/ \E call \in Calls : id = 0 /\ Construct(call[1], call[2])
  \/ \E p \in Player : Destroy(p)
  \/ \E p \in Player : Tick(p)
  \/ \E p \in Player : Load(p)
  \/ \E p \in Player, func \in Funcs : CallCommand(p, func)
  \/ \E p \in Player, name \in EventNames : CallAddEventListener(p, name, "h1")
  \/ \E p \in Player, name \in EventNames : CallRemoveEventListener(p, name, "h1")
  \/ \E m \in HandshakeInbound : OnMessage(m)

Spec == Init /\ [][Next]_vars

\* One instance and its state snapshot: inbound messages of every kind, and
\* the getters.
NextSnapshot ==
  \/ \E call \in Calls : id = 0 /\ Construct(call[1], call[2])
  \/ \E p \in Player : Destroy(p)
  \/ \E m \in Inbound : OnMessage(m)
  \/ \E p \in Player, field \in Properties : CallGetter(p, field)

SpecSnapshot == Init /\ [][NextSnapshot]_vars

\* Up to MaxPlayers constructor calls sharing the router: construction,
\* destruction and inbound messages.
RouterInbound == {m \in HandshakeInbound : m.kind = "object"}

NextRouter ==
  \/ \E call \in Calls : Construct(call[1], call[2])
  \/ \E p \in Player : Destroy(p)
  \/ \E m \in RouterInbound : OnMessage(m)

SpecRouter == Init /\ [][NextRouter]_vars

\* One instance and its event subscribers: handlers that leave the
\* subscription alone and handlers that change it while they are called,
\* under two event names.
SubscriberNames == EventNames \cup {"onStateChange"}
SubscriberCalls == {call \in Calls : call[1].parent /\ call[2].id = undefined /\ call[2].host = undefined}
SubscriberInbound ==
  {[origin |-> DefaultHost, kind |-> "object", id |-> AutoId(0), event |-> d[1], info |-> d[2]] :
      d \in {<<"onReady", NoValue>>, <<"onStateChange", Obj([playerState |-> 1])>>}}

NextSubscribers ==
  \/ \E call \in SubscriberCalls : id = 0 /\ Construct(call[1], call[2])
  \/ \E p \in Player, name \in SubscriberNames, handler \in Handlers :
        CallAddEventListener(p, name, handler)
  \/ \E p \in Player, name \in SubscriberNames, handler \in Handlers :
        CallRemoveEventListener(p, name, handler)
  \/ \E m \in SubscriberInbound : OnMessage(m)

SpecSubscribers == Init /\ [][NextSubscribers]_vars

\* ----------------------------------------------------------- observations
\* the command messages among the messages posted to the frame, in order
PostedCommands(self) ==
  LET sel == SelectSeq(self.posted, LAMBDA msg : msg.event = "command")
  IN  [i \in 1..Len(sel) |-> Command(sel[i].func, sel[i].args)]

\* how many 'listening' probes were posted to the frame
Probes(self) == Len(SelectSeq(self.posted, LAMBDA msg : msg.event = "listening"))

BagOfSeq(seq) ==
  [x \in {seq[i] : i \in 1..Len(seq)} |-> Cardinality({i \in 1..Len(seq) : seq[i] = x})]

\* the handlers registered on the instance under the name, in registration order
Registered(self, name) == IF name \in DOMAIN self.events THEN self.events[name] ELSE <<>>

\* the remote subscribe and unsubscribe commands issued for the name, in order
SubscriptionCommands(self, name) ==
  LET sel == SelectSeq(self.issued,
                       LAMBDA c : c.func \in {"addEventListener", "removeEventListener"}
                                  /\ c.args = <<name>>)
  IN  [i \in 1..Len(sel) |-> sel[i].func]

\* destroy() was called on the instance and returned: it throws only for a
\* created frame that has no parent
DestroyReturned(self) ==
  self.status = "destroyed" /\ ~(self.tagName # "IFRAME" /\ self.slot = "none")

\* the handlers a step called, in call order
FiredHandlers(calls) == [i \in 1..Len(calls) |-> calls[i].handler]

\* ------------------------------------------------------------------ claims

\* C1: when the first inbound message for an instance is handled (the step
\* in which it becomes ready), the commands posted to its frame are exactly
\* the commands issued while it was not ready, each once, in issue order.
C1_FlushDeliversIssuedInOrder ==
  [][\A p \in Player :
       (~player[p].ready /\ player'[p].ready)
         => PostedCommands(player'[p]) = player[p].issued]_vars

\* C2: a 'command' message has been posted to an instance's frame only if
\* the instance is ready; until then only 'listening' probes are posted.
C2_NoCommandBeforeReady ==
  \A p \in Player :
    ~player[p].ready =>
      \A i \in 1..Len(player[p].posted) : player[p].posted[i].event = "listening"

C2_Witness ==
  \E p \in Player :
    /\ player[p].ready
    /\ Len(PostedCommands(player[p])) = 2
    /\ Probes(player[p]) >= 1

\* C3: every command issued on an instance is in exactly one place, its
\* pending queue or the transport, exactly once: the issued commands are the
\* queued ones plus the posted ones, counted with multiplicity.
C3_QueuedOrSentExactlyOnce ==
  \A p \in Player :
    BagOfSeq(player[p].issued)
      = BagOfSeq(player[p].messageQueue) (+) BagOfSeq(PostedCommands(player[p]))

\* C4: a ready instance stays ready, the step that makes it ready leaves the
\* probe timer cleared, and a cleared timer of a ready instance is never
\* armed again.
C4_ReadinessMonotonic ==
  [][\A p \in Player :
       /\ player[p].ready => player'[p].ready
       /\ player'[p].ready => ~player'[p].pollReadiness]_vars

C4_Witness ==
  \E p \in Player :
    /\ player[p].ready
    /\ ~player[p].pollReadiness
    /\ player[p].ticks > 0
    /\ player[p].status = "destroyed"

\* C5: an accepted 'infoDelivery' with info I leaves the snapshot equal to
\* the old snapshot overridden by I (fields of I take I's values, cached
\* fields absent from I keep theirs, nothing else appears); an accepted
\* 'initialDelivery' with info I leaves the snapshot equal to I.
C5_MergeThenReplace ==
  [][\A m \in Inbound :
       ( /\ m.kind = "object"
         /\ m.event \in {"infoDelivery", "initialDelivery"}
         /\ m.info.type = "object"
         /\ lastOrigin' = m.origin
         /\ m.origin \in attachedListeners
         /\ m.id \in DOMAIN messageHandlers
         /\ OnMessage(m) )
       => LET p == messageHandlers[m.id]
              old == player[p].info.fields
              new == player'[p].info.fields
              I == m.info.fields
          IN  /\ player'[p].info.type = "object"
              /\ m.event = "infoDelivery" =>
                   /\ DOMAIN new = DOMAIN old \cup DOMAIN I
                   /\ \A k \in DOMAIN I : new[k] = I[k]
                   /\ \A k \in DOMAIN old \ DOMAIN I : new[k] = old[k]
              /\ m.event = "initialDelivery" =>
                   /\ DOMAIN new = DOMAIN I
                   /\ \A k \in DOMAIN I : new[k] = I[k]]_vars

\* infoDelivery {volume: 50} then infoDelivery {muted: true}
C5_Witness ==
  \E p \in Player :
    /\ getVolume(player[p]) = <<50>>
    /\ isMuted(player[p]) = <<TRUE>>

\* C6: a constructor call whose identifier is that of a live instance fails
\* with the duplicate error and leaves the router mapping as it was; every
\* live instance is the one its identifier routes to, so no identifier of
\* the mapping belongs to two live instances.
C6_DuplicateIdRejected ==
  [][/\ \A q \in Player :
          ( /\ player[q].status = "none"
            /\ player'[q].status \in {"live", "failed"}
            /\ \E p \in Player : player[p].status = "live" /\ player[p].id = player'[q].id )
          => /\ player'[q].status = "failed"
             /\ result' = DuplicateError
             /\ messageHandlers' = messageHandlers
     /\ \A p \in Player :
          player'[p].status = "live"
            => /\ player'[p].id \in DOMAIN messageHandlers'
               /\ messageHandlers'[player'[p].id] = p
     /\ \A i \in DOMAIN messageHandlers' :
          Cardinality({p \in Player : player'[p].status = "live" /\ player'[p].id = i}) <= 1]_vars

C6_Witness ==
  \E p, q \in Player :
    /\ p < q
    /\ player[p].status = "live"
    /\ player[q].status = "failed"
    /\ player[q].id = player[p].id
    /\ result = DuplicateError
    /\ messageHandlers[player[p].id] = p

\* C7: a constructor call that passes no identifier never fails with the
\* duplicate error.
C7_AutoIdNeverDuplicate ==
  [][\A call \in Calls :
       (call[2].id = undefined /\ Construct(call[1], call[2]))
         => result' # DuplicateError]_vars

\* C8: a 'message' event whose origin is not in the trusted set changes no
\* instance (ready flag, queue, snapshot, posted messages) and invokes no
\* callback.
C8_UntrustedOriginIgnored ==
  [][(lastOrigin' # NoOrigin /\ lastOrigin' \notin attachedListeners)
       => (player' = player /\ fired' = <<>>)]_vars

C8_Witness ==
  /\ lastOrigin = UntrustedOrigin
  /\ attachedListeners # {}
  /\ \E p \in Player :
       /\ player[p].status = "live"
       /\ ~player[p].ready
       /\ Len(player[p].messageQueue) > 0
       /\ player[p].pollReadiness

\* C9: an instance is changed by a 'message' event (becomes ready, updates
\* its snapshot, has its queue flushed) or has its callbacks invoked only if
\* the event's origin is that instance's own host.
C9_AcceptsOnlyOwnHost ==
  [][\A p \in Player :
       ( /\ lastOrigin' # NoOrigin
         /\ \/ player'[p] # player[p]
            \/ \E i \in 1..Len(fired') : fired'[i].target = p )
       => lastOrigin' = player[p].host]_vars

\* C10: an instance that has had no inbound message, no load event and no
\* destroy is not ready with its timer armed; after k firings it has sent
\* k + 1 probes (4 once 350 time units have passed) and no command, every
\* issued command is still queued, and getDuration() is undefined.
C10_ProbesForever ==
  \A p \in Player :
    (player[p].status = "live" /\ ~player[p].ready /\ player[p].loads = 0)
      => /\ player[p].pollReadiness
         /\ Probes(player[p]) = player[p].ticks + 1
         /\ player[p].ticks = 350 \div PollInterval => Probes(player[p]) = 4
         /\ PostedCommands(player[p]) = <<>>
         /\ player[p].messageQueue = player[p].issued
         /\ getDuration(player[p]) = <<>>

\* C11: when a domain-event message is handled for an instance, the
\* callbacks invoked are exactly the handlers registered on it for that
\* event name when the message arrived, once per registration and in
\* registration order, each with the instance as target, the name as type
\* and the message's info as data; with none registered nothing is invoked.
C11_EveryHandlerOnceInOrder ==
  [][\A m \in SubscriberInbound :
       (m.id \in DOMAIN messageHandlers /\ OnMessage(m))
         => LET p == messageHandlers[m.id]
                list == Registered(player[p], m.event)
            IN  fired' = [i \in 1..Len(list) |->
                            [handler |-> list[i], target |-> p, type |-> m.event, data |-> m.info]]]_vars

\* C12: destroy() undoes what construction did to the document: where a
\* placeholder's place in its parent held the created frame, it holds the
\* placeholder again (and so not the frame); where an existing frame was
\* adopted, its place is as it was; no other instance's element is touched.
C12_DestroyRestoresDocument ==
  [][\A p \in Player :
       Destroy(p)
         => /\ (player[p].tagName # "IFRAME" /\ player[p].slot = "iframe")
                  => player'[p].slot = "original"
            /\ player[p].tagName = "IFRAME" => player'[p].slot = player[p].slot
            /\ \A q \in Player \ {p} : player'[q].slot = player[q].slot]_vars

C12_Witness ==
  \E p, q \in Player :
    /\ player[p].status = "destroyed"
    /\ player[p].tagName = "DIV"
    /\ player[p].slot = "original"
    /\ result = "ok"
    /\ player[q].status = "live"
    /\ player[q].slot = "iframe"

\* C13: for every event name of an instance the remote subscribe and
\* unsubscribe commands issued so far alternate, starting with subscribe,
\* and the last one is a subscribe exactly when a handler is registered for
\* the name.  An addEventListener call adds one registration (also of a
\* handler already registered) and issues a subscribe exactly when none was
\* registered before; a removeEventListener call issues an unsubscribe
\* exactly when it removes the only registration.
C13_SubscribeUnsubscribeAlternate ==
  [][\A p \in Player, name \in SubscriberNames :
       LET before == Len(Registered(player[p], name))
           after == Len(Registered(player'[p], name))
           cmds == SubscriptionCommands(player[p], name)
           cmdsAfter == SubscriptionCommands(player'[p], name)
       IN  /\ \A i \in 1..Len(cmdsAfter) :
                 cmdsAfter[i] = IF i % 2 = 1 THEN "addEventListener" ELSE "removeEventListener"
           /\ (Len(cmdsAfter) % 2 = 1) <=> (after >= 1)
           /\ \A handler \in Handlers :
                 CallAddEventListener(p, name, handler)
                   => /\ after = before + 1
                      /\ cmdsAfter = IF before = 0 THEN Append(cmds, "addEventListener") ELSE cmds
           /\ \A handler \in Handlers :
                 CallRemoveEventListener(p, name, handler)
                   => cmdsAfter = IF before = 1 /\ after = 0
                                  THEN Append(cmds, "removeEventListener") ELSE cmds]_vars

C13_Witness ==
  \E p \in Player, name \in SubscriberNames :
    /\ SubscriptionCommands(player[p], name) = <<"addEventListener", "removeEventListener">>
    /\ Registered(player[p], name) = <<>>
    /\ player[p].ready

\* C14: in every state an instance can be in, each getter returns without
\* throwing, and returns undefined if its property was never delivered (so
\* always while the instance is not ready) and the value last delivered for
\* it otherwise; a getter call changes no instance: nothing is queued and
\* nothing is posted.
C14_GettersReturnLastDelivered ==
  [][\A p \in Player, field \in Properties :
       /\ CallGetter(p, field) => (result' = "ok" /\ player' = player)
       /\ player'[p].status \in {"live", "destroyed"}
            => /\ ~GetterThrows(player'[p])
               /\ Get(player'[p], field)
                    = IF field \in DOMAIN player'[p].delivered
                      THEN <<player'[p].delivered[field]>> ELSE <<>>
               /\ ~player'[p].ready => Get(player'[p], field) = <<>>]_vars

\* C15: once destroy() has returned for an instance, no step posts another
\* 'listening' probe to its frame: not a firing of the interval, not a load
\* event of the frame.
C15_NoProbeAfterDestroy ==
  [][\A p \in Player :
       DestroyReturned(player[p]) => Probes(player'[p]) = Probes(player[p])]_vars

\* C16: a message from a trusted origin that carries the identifier of an
\* instance destroy() was called on, while no live instance has that
\* identifier, is discarded: the instance is left as it was (ready flag,
\* queue, snapshot, posted messages), no callback is invoked and the
\* listener raises no error.
C16_MessageAfterDestroyDiscarded ==
  [][\A m \in HandshakeInbound, p \in Player :
       ( /\ m.kind = "object"
         /\ m.origin \in attachedListeners
         /\ player[p].status = "destroyed"
         /\ m.id = player[p].id
         /\ ~\E q \in Player : player[q].status = "live" /\ player[q].id = m.id
         /\ OnMessage(m) )
       => (player'[p] = player[p] /\ fired' = <<>> /\ result' = "ok")]_vars

\* C17: a message from a trusted origin whose data is text that does not
\* parse, or that parses to null, is discarded: the listener raises no error
\* and no instance changes.
C17_MalformedPayloadDiscarded ==
  [][\A m \in HandshakeInbound :
       (m.kind \in {"text", "null"} /\ m.origin \in attachedListeners /\ OnMessage(m))
         => (result' = "ok" /\ player' = player /\ fired' = <<>>)]_vars

\* C18: a constructor call that fails with the duplicate error leaves
\* nothing behind: the trusted-origin set is as it was, the target's place in
\* the document does not hold a created frame, and the failed object has no
\* probe interval armed and has posted no probe (its probes carry the
\* identifier of the existing instance, whose replies would reach it).
C18_FailedConstructionLeavesNothing ==
  [][\A q \in Player :
       /\ (player[q].status = "none" /\ player'[q].status = "failed")
            => /\ attachedListeners' = attachedListeners
               /\ player'[q].slot # "iframe"
       /\ player'[q].status = "failed"
            => /\ ~player'[q].pollReadiness
               /\ Probes(player'[q]) = 0]_vars

\* C19: an instance that a message step changes in any way (ready flag,
\* queue, probe timer, snapshot, subscribers, messages posted to its frame)
\* or whose callbacks it invokes is the instance the message's identifier is
\* mapped to: every other instance is left exactly as it was, and a message
\* whose identifier is not mapped changes no instance.
C19_RoutingIsolatesInstances ==
  [][\A b \in Player :
       ( /\ lastOrigin' # NoOrigin
         /\ \/ player'[b] # player[b]
            \/ \E i \in 1..Len(fired') : fired'[i].target = b )
       => \A m \in RouterInbound :
            (lastOrigin' = m.origin /\ OnMessage(m))
              => (m.id \in DOMAIN messageHandlers /\ messageHandlers[m.id] = b)]_vars

C19_Witness ==
  \E a, b \in Player :
    /\ a # b
    /\ player[a].status = "live" /\ player[b].status = "live"
    /\ lastOrigin # NoOrigin
    /\ player[a].ready
    /\ Len(PostedCommands(player[a])) >= 1
    /\ ~player[b].ready
    /\ player[b].pollReadiness
    /\ Len(player[b].messageQueue) >= 1

\* C20: when a handler registered for the event name changes the
\* subscription while the event is being delivered (it unregisters itself,
\* or registers another handler), the handlers called are still all those
\* registered for the name when the message arrived, each once per
\* registration, in registration order.
C20_DispatchSurvivesResubscription ==
  [][\A m \in SubscriberInbound :
       ( /\ m.id \in DOMAIN messageHandlers
         /\ \E i \in 1..Len(Registered(player[messageHandlers[m.id]], m.event)) :
               Registered(player[messageHandlers[m.id]], m.event)[i] \in {"once", "adder"}
         /\ OnMessage(m) )
       => FiredHandlers(fired') = Registered(player[messageHandlers[m.id]], m.event)]_vars

====
